---- MODULE Spec2Model ----
(***************************************************************************)
(* Model of reddit/things.go: the tree assembler (addCommentToReplies,     *)
(* addMoreToReplies, addCommentToTree, addMoreToTree), the JSON decoders   *)
(* (things, listing, Replies, PostAndComments) and Replies.MarshalJSON.    *)
(***************************************************************************)
EXTENDS Integers, Sequences, FiniteSets, TLC

\* ------------------------------------------------------------------ bounds
\* Number of attach calls made against one tree.
MaxOps == 3
\* Number of envelopes in a children array handed to the classifier.
MaxLen == 2

\* ----------------------------------------------------------------- objects
\* *Comment objects on the heap; c0 is also the root of the comment-rooted tree.
Comments == {"c0", "c1", "c2"}
\* *More objects on the heap.
Mores == {"m1", "m2"}
\* The nil pointer.
Nil == "nil"
\* Values of the FullID / ParentID strings.
IDs == {"R", "A", "B"}
\* pc.Post.FullID of the aggregate.
PostFullID == "R"
\* The receiver of the calls on a comment-rooted tree.
RootComment == "c0"

VARIABLES
    fullID,        \* Comment.FullID of each comment object
    parentID,      \* Comment.ParentID of each comment object
    moreParentID,  \* More.ParentID of each placeholder object
    rootKind,      \* "pc": calls go to a PostAndComments; "c0": to the comment c0
    replies,       \* Comment.Replies.Comments of each comment object
    repliesMore,   \* Comment.Replies.More of each comment object
    pcComments,    \* PostAndComments.Comments
    pcMore,        \* PostAndComments.More
    status,        \* "ok", or "overflow" once a call recursed without bound
    fed,           \* history: the attach calls made so far, in order
    pre,           \* history: the heap as it was before the last call
    wire,          \* the JSON value handed to a decoder
    encoded,       \* the Replies value wire was encoded from, if any
    out,           \* what the decoder returned
    gpc,           \* where each goroutine is in its call of addCommentToTree
    stack,         \* each goroutine's call stack: the node visited, the slice ranged over, the index
    loaded,        \* the slice each goroutine read for append
    overlapped     \* history: a call began while another was in progress

treeVars == <<fullID, parentID, moreParentID, rootKind, replies, repliesMore,
              pcComments, pcMore, status, fed, pre>>

decodeVars == <<wire, encoded, out>>

concVars == <<gpc, stack, loaded, overlapped>>

vars == <<treeVars, decodeVars, concVars>>

Range(s) == {s[i] : i \in 1..Len(s)}

\* The mutable part of the object graph, as one value.
Heap ==
    [replies |-> replies, more |-> repliesMore,
     pcComments |-> pcComments, pcMore |-> pcMore, ok |-> TRUE]

\* A chain of calls longer than the number of comment objects visits one
\* object twice with no match in between, and then recurses forever: the Go
\* runtime ends the process with a stack overflow.
StackLimit == Cardinality(Comments)

RECURSIVE addCommentToReplies(_, _, _, _)
RECURSIVE rangeAddComment(_, _, _, _, _)
RECURSIVE addMoreToReplies(_, _, _, _)
RECURSIVE rangeAddMore(_, _, _, _, _)

\* The new comment is put in front of the replies.
appendComment_prepend(s, comment) == <<comment>> \o s

\* The replies are replaced by the new comment alone.
appendComment_dropsOld(s, comment) == <<comment>>

\* append(c.Replies.Comments, comment) / append(pc.Comments, comment)
appendComment(s, comment) == Append(s, comment)

\* The comparison reads c.ParentID where it should read c.FullID.
addCommentToReplies_cmpParent(h, c, comment, depth) ==
    IF ~h.ok \/ depth > StackLimit
    THEN [h EXCEPT !.ok = FALSE]
    ELSE IF parentID[c] = parentID[comment]
         THEN [h EXCEPT !.replies[c] = appendComment(@, comment)]
         ELSE rangeAddComment(h, h.replies[c], 1, comment, depth)

\* func (c *Comment) addCommentToReplies(comment *Comment)
addCommentToReplies(h, c, comment, depth) ==
    IF ~h.ok \/ depth > StackLimit
    THEN [h EXCEPT !.ok = FALSE]
    ELSE IF fullID[c] = parentID[comment]
         THEN [h EXCEPT !.replies[c] = appendComment(@, comment)]
         ELSE rangeAddComment(h, h.replies[c], 1, comment, depth)

\* for _, reply := range rs { reply.addCommentToReplies(comment) }
rangeAddComment(h, rs, i, comment, depth) ==
    IF i > Len(rs) \/ ~h.ok
    THEN h
    ELSE rangeAddComment(addCommentToReplies(h, rs[i], comment, depth + 1),
                         rs, i + 1, comment, depth)

\* A placeholder already in the slot is kept.
addMoreToReplies_keepFirst(h, c, more, depth) ==
    IF ~h.ok \/ depth > StackLimit
    THEN [h EXCEPT !.ok = FALSE]
    ELSE IF fullID[c] = moreParentID[more]
         THEN [h EXCEPT !.more[c] = IF @ = Nil THEN more ELSE @]
         ELSE rangeAddMore(h, h.replies[c], 1, more, depth)

\* func (c *Comment) addMoreToReplies(more *More)
addMoreToReplies(h, c, more, depth) ==
    IF ~h.ok \/ depth > StackLimit
    THEN [h EXCEPT !.ok = FALSE]
    ELSE IF fullID[c] = moreParentID[more]
         THEN [h EXCEPT !.more[c] = more]
         ELSE rangeAddMore(h, h.replies[c], 1, more, depth)

\* for _, reply := range rs { reply.addMoreToReplies(more) }
rangeAddMore(h, rs, i, more, depth) ==
    IF i > Len(rs) \/ ~h.ok
    THEN h
    ELSE rangeAddMore(addMoreToReplies(h, rs[i], more, depth + 1),
                      rs, i + 1, more, depth)

\* func (pc *PostAndComments) addCommentToTree(comment *Comment)
addCommentToTree(h, comment) ==
    IF PostFullID = parentID[comment]
    THEN [h EXCEPT !.pcComments = appendComment(@, comment)]
    ELSE rangeAddComment(h, h.pcComments, 1, comment, 0)

\* func (pc *PostAndComments) addMoreToTree(more *More): no return after the
\* assignment, the range over pc.Comments always runs.
addMoreToTree(h, more) ==
    LET h1 == IF PostFullID = moreParentID[more]
              THEN [h EXCEPT !.pcMore = more]
              ELSE h
    IN  rangeAddMore(h1, h1.pcComments, 1, more, 0)

\* The heap after a call that returned; a call that overflowed the stack
\* ends the process and the heap is not looked at again.
Finish(h, call) ==
    /\ status' = IF h.ok THEN "ok" ELSE "overflow"
    /\ replies' = IF h.ok THEN h.replies ELSE replies
    /\ repliesMore' = IF h.ok THEN h.more ELSE repliesMore
    /\ pcComments' = IF h.ok THEN h.pcComments ELSE pcComments
    /\ pcMore' = IF h.ok THEN h.pcMore ELSE pcMore
    /\ fed' = Append(fed, call)
    /\ pre' = Heap
    /\ UNCHANGED <<fullID, parentID, moreParentID, rootKind>>
    /\ UNCHANGED <<decodeVars, concVars>>

CanCall == status = "ok" /\ Len(fed) < MaxOps

AddCommentToTree(comment) ==
    /\ CanCall /\ rootKind = "pc"
    /\ Finish(addCommentToTree(Heap, comment), [op |-> "comment", arg |-> comment])

AddMoreToTree(more) ==
    /\ CanCall /\ rootKind = "pc"
    /\ Finish(addMoreToTree(Heap, more), [op |-> "more", arg |-> more])

AddCommentToReplies(comment) ==
    /\ CanCall /\ rootKind = "c0"
    /\ Finish(addCommentToReplies(Heap, RootComment, comment, 1),
              [op |-> "comment", arg |-> comment])

AddMoreToReplies(more) ==
    /\ CanCall /\ rootKind = "c0"
    /\ Finish(addMoreToReplies(Heap, RootComment, more, 1),
              [op |-> "more", arg |-> more])

EmptyHeap ==
    [replies |-> [c \in Comments |-> <<>>], more |-> [c \in Comments |-> Nil],
     pcComments |-> <<>>, pcMore |-> Nil, ok |-> TRUE]

\* No decoder is in use while a tree is assembled.
DecodeIdle == wire = [j |-> "null"] /\ encoded = [nil |-> TRUE] /\ out = [op |-> "none"]

\* No goroutine runs beside the caller.
ConcIdle ==
    /\ gpc = [g \in {1, 2} |-> "idle"]
    /\ stack = [g \in {1, 2} |-> <<>>]
    /\ loaded = [g \in {1, 2} |-> <<>>]
    /\ overlapped = FALSE

\* The comment objects come from a decode, with no replies; c1 may have
\* been decoded with the placeholder m1 in its reply listing.
Init ==
    /\ DecodeIdle
    /\ ConcIdle
    /\ fullID \in {f \in [Comments -> IDs \cup {"C"}] :
                      /\ f["c0"] \in {"R", "C"}
                      /\ f["c1"] = "A"
                      /\ f["c2"] \in {"A", "B"}}
    /\ parentID \in [Comments -> IDs]
    /\ moreParentID \in [Mores -> {"R", "A"}]
    /\ rootKind \in {"pc", "c0"}
    /\ replies = EmptyHeap.replies
    /\ repliesMore \in {EmptyHeap.more, [EmptyHeap.more EXCEPT !["c1"] = "m1"]}
    /\ pcComments = <<>>
    /\ pcMore = Nil
    /\ status = "ok"
    /\ fed = <<>>
    /\ pre = [EmptyHeap EXCEPT !.more = repliesMore]

Next ==
    \/ \E comment \in Comments : AddCommentToTree(comment)
    \/ \E more \in Mores : AddMoreToTree(more)
    \/ \E comment \in Comments : AddCommentToReplies(comment)
    \/ \E more \in Mores : AddMoreToReplies(more)

Spec == Init /\ [][Next]_vars

\* ============================================================ JSON decoding
kindComment == "t1"
kindAccount == "t2"
kindPost == "t3"
kindMessage == "t4"
kindSubreddit == "t5"
kindAward == "t6"
kindListing == "Listing"
kindKarmaList == "KarmaList"
kindTrophyList == "TrophyList"
kindUserList == "UserList"
kindMore == "more"
kindModAction == "modaction"

\* The kinds the switch of things.UnmarshalJSON has a case for.
SupportedKinds ==
    {kindComment, kindMore, kindAccount, kindPost, kindSubreddit, kindModAction}

\* The kinds it has no case for.
UnsupportedKinds ==
    {kindMessage, kindAward, kindListing, kindKarmaList, kindTrophyList, kindUserList}

\* JSON values.
JNull == [j |-> "null"]
JStr(s) == [j |-> "string", s |-> s]
JArr(a) == [j |-> "array", a |-> a]
JObj(f) == [j |-> "object", f |-> f]

\* A key of a JSON object: whether it is there, and its value.
Field(v, k) ==
    IF k \in DOMAIN v.f
    THEN [present |-> TRUE, v |-> v.f[k]]
    ELSE [present |-> FALSE, v |-> JNull]

\* Go slices: the nil slice differs from an empty one.
NilSlice == [nil |-> TRUE, elems |-> <<>>]
MakeSlice == [nil |-> FALSE, elems |-> <<>>]
AppendSlice(s, v) == [nil |-> FALSE, elems |-> Append(s.elems, v)]

\* The zero values of the structs.
\* A pointer to a decoded record: nil, or the record it points to.
NoMore == [nil |-> TRUE]
Ptr(v) == [nil |-> FALSE, v |-> v]

ZeroReplies == [Comments |-> NilSlice, More |-> NoMore]
ZeroComment == [FullID |-> "", ParentID |-> "", Replies |-> ZeroReplies]
ZeroRecord == [FullID |-> "", ParentID |-> ""]
ZeroThings ==
    [Comments |-> NilSlice, Mores |-> NilSlice, Users |-> NilSlice,
     Posts |-> NilSlice, Subreddits |-> NilSlice, ModActions |-> NilSlice]
ZeroListing == [things |-> ZeroThings, after |-> "", before |-> ""]

\* things.init
thingsInit ==
    [Comments |-> MakeSlice, Mores |-> MakeSlice, Users |-> MakeSlice,
     Posts |-> MakeSlice, Subreddits |-> MakeSlice, ModActions |-> MakeSlice]

\* A string field of a struct read from a JSON object: a JSON string sets
\* it, null or a missing key leaves it, any other value is a type error.
stringField(obj, key, old) ==
    LET fld == Field(obj, key)
    IN  IF ~fld.present \/ fld.v.j = "null" THEN [err |-> FALSE, v |-> old]
        ELSE IF fld.v.j = "string" THEN [err |-> FALSE, v |-> fld.v.s]
        ELSE [err |-> TRUE, v |-> old]

\* json.Unmarshal(b, &things) for var things []thing: one thing per element.
decodeThing(e) ==
    IF e.j = "null" THEN [err |-> FALSE, Kind |-> "", Data |-> Field(JObj(<<>>), "data")]
    ELSE IF e.j /= "object" THEN [err |-> TRUE, Kind |-> "", Data |-> Field(JObj(<<>>), "data")]
    ELSE LET k == stringField(e, "kind", "")
         IN  [err |-> k.err, Kind |-> k.v, Data |-> Field(e, "data")]

decodeThingArray(b) ==
    IF b.j = "null" THEN [err |-> FALSE, things |-> <<>>]
    ELSE IF b.j /= "array" THEN [err |-> TRUE, things |-> <<>>]
    ELSE LET ths == [i \in 1..Len(b.a) |-> decodeThing(b.a[i])]
         IN  [err |-> \E i \in 1..Len(ths) : ths[i].err, things |-> ths]

\* json.Unmarshal(thing.Data, v) for v of type More, User, Post, Subreddit or
\* ModAction: a missing data key leaves no bytes to parse (an error), null
\* leaves the zero record, an object fills the record, anything else is a
\* type error.
unmarshalRecord(data) ==
    IF ~data.present THEN [err |-> TRUE, v |-> ZeroRecord]
    ELSE IF data.v.j = "null" THEN [err |-> FALSE, v |-> ZeroRecord]
    ELSE IF data.v.j /= "object" THEN [err |-> TRUE, v |-> ZeroRecord]
    ELSE LET n == stringField(data.v, "name", "")
             p == stringField(data.v, "parent_id", "")
         IN  [err |-> n.err \/ p.err, v |-> [FullID |-> n.v, ParentID |-> p.v]]

RECURSIVE unmarshalComment(_)
RECURSIVE classify(_, _, _)
RECURSIVE thingsUnmarshalJSON(_)
RECURSIVE listingUnmarshalJSON(_)
RECURSIVE repliesUnmarshalJSON(_)

\* The record is appended whether or not its payload decoded.
classifyOne_noErrCheck(t, th) ==
    CASE th.Kind = kindComment ->
            [t EXCEPT !.Comments = AppendSlice(@, unmarshalComment(th.Data).v)]
      [] th.Kind = kindMore ->
            [t EXCEPT !.Mores = AppendSlice(@, unmarshalRecord(th.Data).v)]
      [] th.Kind = kindAccount ->
            [t EXCEPT !.Users = AppendSlice(@, unmarshalRecord(th.Data).v)]
      [] th.Kind = kindPost ->
            [t EXCEPT !.Posts = AppendSlice(@, unmarshalRecord(th.Data).v)]
      [] th.Kind = kindSubreddit ->
            [t EXCEPT !.Subreddits = AppendSlice(@, unmarshalRecord(th.Data).v)]
      [] th.Kind = kindModAction ->
            [t EXCEPT !.ModActions = AppendSlice(@, unmarshalRecord(th.Data).v)]
      [] OTHER -> t

\* One turn of the loop of things.UnmarshalJSON: the switch on thing.Kind.
classifyOne(t, th) ==
    CASE th.Kind = kindComment ->
            LET r == unmarshalComment(th.Data)
            IN  IF r.err THEN t ELSE [t EXCEPT !.Comments = AppendSlice(@, r.v)]
      [] th.Kind = kindMore ->
            LET r == unmarshalRecord(th.Data)
            IN  IF r.err THEN t ELSE [t EXCEPT !.Mores = AppendSlice(@, r.v)]
      [] th.Kind = kindAccount ->
            LET r == unmarshalRecord(th.Data)
            IN  IF r.err THEN t ELSE [t EXCEPT !.Users = AppendSlice(@, r.v)]
      [] th.Kind = kindPost ->
            LET r == unmarshalRecord(th.Data)
            IN  IF r.err THEN t ELSE [t EXCEPT !.Posts = AppendSlice(@, r.v)]
      [] th.Kind = kindSubreddit ->
            LET r == unmarshalRecord(th.Data)
            IN  IF r.err THEN t ELSE [t EXCEPT !.Subreddits = AppendSlice(@, r.v)]
      [] th.Kind = kindModAction ->
            LET r == unmarshalRecord(th.Data)
            IN  IF r.err THEN t ELSE [t EXCEPT !.ModActions = AppendSlice(@, r.v)]
      [] OTHER -> t

\* for _, thing := range things { switch ... }
classify(t, ths, i) ==
    IF i > Len(ths) THEN t ELSE classify(classifyOne(t, ths[i]), ths, i + 1)

\* func (t *things) UnmarshalJSON(b []byte) error
thingsUnmarshalJSON(b) ==
    LET d == decodeThingArray(b)
    IN  IF d.err
        THEN [err |-> TRUE, v |-> thingsInit]
        ELSE [err |-> FALSE, v |-> classify(thingsInit, d.things, 1)]

\* func (l *listing) UnmarshalJSON(b []byte) error: the decode of the
\* anonymous root struct and the three assignments.
listingUnmarshalJSON(b) ==
    IF b.j = "null" THEN [err |-> FALSE, v |-> ZeroListing]
    ELSE IF b.j /= "object" THEN [err |-> TRUE, v |-> ZeroListing]
    ELSE LET data == Field(b, "data")
         IN  IF ~data.present \/ data.v.j = "null"
             THEN [err |-> FALSE, v |-> ZeroListing]
             ELSE IF data.v.j /= "object"
             THEN [err |-> TRUE, v |-> ZeroListing]
             ELSE LET children == Field(data.v, "children")
                      t == IF children.present
                           THEN thingsUnmarshalJSON(children.v)
                           ELSE [err |-> FALSE, v |-> ZeroThings]
                      a == stringField(data.v, "after", "")
                      bf == stringField(data.v, "before", "")
                  IN  [err |-> t.err \/ a.err \/ bf.err,
                       v |-> [things |-> t.v, after |-> a.v, before |-> bf.v]]

\* func (r *Replies) UnmarshalJSON(data []byte) error, on a zero Replies:
\* `r = nil` rebinds the local pointer and leaves the receiver as it was.
repliesUnmarshalJSON(data) ==
    IF data.j = "string" /\ data.s = ""
    THEN [err |-> FALSE, v |-> ZeroReplies]
    ELSE LET root == listingUnmarshalJSON(data)
         IN  IF root.err
             THEN [err |-> TRUE, v |-> ZeroReplies]
             ELSE [err |-> FALSE,
                   v |-> [Comments |-> root.v.things.Comments,
                          More |-> IF Len(root.v.things.Mores.elems) > 0
                                   THEN Ptr(root.v.things.Mores.elems[1])
                                   ELSE NoMore]]

\* json.Unmarshal(thing.Data, v) for v of type Comment: as for the other
\* records, and the replies key goes through Replies.UnmarshalJSON.
unmarshalComment(data) ==
    IF ~data.present THEN [err |-> TRUE, v |-> ZeroComment]
    ELSE IF data.v.j = "null" THEN [err |-> FALSE, v |-> ZeroComment]
    ELSE IF data.v.j /= "object" THEN [err |-> TRUE, v |-> ZeroComment]
    ELSE LET n == stringField(data.v, "name", "")
             p == stringField(data.v, "parent_id", "")
             rf == Field(data.v, "replies")
             r == IF rf.present
                  THEN repliesUnmarshalJSON(rf.v)
                  ELSE [err |-> FALSE, v |-> ZeroReplies]
         IN  [err |-> n.err \/ p.err \/ r.err,
              v |-> [FullID |-> n.v, ParentID |-> p.v, Replies |-> r.v]]

\* json.Unmarshal(data, &l) for var l [2]listing: elements beyond the second
\* are discarded, missing ones stay zero, null leaves both zero.
decodeListingPair(data) ==
    IF data.j = "null"
    THEN [err |-> FALSE, l |-> <<ZeroListing, ZeroListing>>]
    ELSE IF data.j /= "array"
    THEN [err |-> TRUE, l |-> <<ZeroListing, ZeroListing>>]
    ELSE LET d == [i \in 1..2 |->
                      IF i <= Len(data.a)
                      THEN listingUnmarshalJSON(data.a[i])
                      ELSE [err |-> FALSE, v |-> ZeroListing]]
         IN  [err |-> d[1].err \/ d[2].err, l |-> <<d[1].v, d[2].v>>]

NoAggregate == [Post |-> NoMore, Comments |-> NilSlice, More |-> NoMore]

\* func (pc *PostAndComments) UnmarshalJSON(data []byte) error; the index
\* expression l[0].Posts[0] panics on an empty Posts.
postAndCommentsUnmarshalJSON(data) ==
    LET d == decodeListingPair(data)
    IN  IF d.err
        THEN [outcome |-> "error", v |-> NoAggregate]
        ELSE IF Len(d.l[1].things.Posts.elems) = 0
        THEN [outcome |-> "panic", v |-> NoAggregate]
        ELSE [outcome |-> "ok",
              v |-> [Post |-> Ptr(d.l[1].things.Posts.elems[1]),
                     Comments |-> d.l[2].things.Comments,
                     More |-> IF Len(d.l[2].things.Mores.elems) > 0
                              THEN Ptr(d.l[2].things.Mores.elems[1])
                              ELSE NoMore]]

RECURSIVE marshalComment(_)
RECURSIVE repliesMarshalJSON(_)

\* json.Marshal of a *Comment: name and parent_id are omitted when empty,
\* replies is always written, through Replies.MarshalJSON.
marshalComment(c) ==
    LET rep == [replies |-> repliesMarshalJSON(c.Replies)]
        nam == IF c.FullID = "" THEN rep ELSE [name |-> JStr(c.FullID)] @@ rep
    IN  JObj(IF c.ParentID = "" THEN nam ELSE [parent_id |-> JStr(c.ParentID)] @@ nam)

\* func (r *Replies) MarshalJSON() ([]byte, error)
repliesMarshalJSON(r) ==
    IF Len(r.Comments.elems) = 0
    THEN JNull
    ELSE JArr([i \in 1..Len(r.Comments.elems) |-> marshalComment(r.Comments.elems[i])])

\* ------------------------------------------------------------- the inputs
\* Payloads of an envelope: two records, null and a value of the wrong type.
PObj(n) == JObj([name |-> JStr(n), parent_id |-> JStr("t3_p")])
Payloads == {PObj("x_a"), PObj("x_b"), JNull, JStr("oops")}

Envelope(k, p) == JObj([kind |-> JStr(k), data |-> p])
BareEnvelope(k) == JObj([kind |-> JStr(k)])

\* Tagged envelopes: every supported kind with every payload and with no
\* data key, every unsupported kind with a well-formed payload.
Envelopes ==
    {Envelope(k, p) : k \in SupportedKinds, p \in Payloads}
        \cup {BareEnvelope(k) : k \in SupportedKinds}
        \cup {Envelope(k, PObj("x_a")) : k \in UnsupportedKinds}

RECURSIVE SeqsUpTo(_, _)
SeqsUpTo(S, n) ==
    IF n = 0 THEN {<<>>}
    ELSE LET shorter == SeqsUpTo(S, n - 1)
         IN  shorter \cup {Append(s, x) : s \in {t \in shorter : Len(t) = n - 1}, x \in S}

EnvelopeArrays == {JArr(a) : a \in SeqsUpTo(Envelopes, MaxLen)}

ListingOf(children) == JObj([kind |-> JStr(kindListing), data |-> JObj(children)])

\* A comment whose replies key holds a listing with one comment and one
\* placeholder.
NestedComment ==
    JObj([name |-> JStr("t1_n"), parent_id |-> JStr("t3_p"),
          replies |-> ListingOf([children |->
              JArr(<<Envelope(kindComment, PObj("t1_r")),
                     Envelope(kindMore, PObj("more_r"))>>)])])

ChildArrays ==
    <<JArr(<<>>),
      JArr(<<Envelope(kindPost, PObj("t3_p"))>>),
      JArr(<<Envelope(kindPost, PObj("t3_p")), Envelope(kindPost, PObj("t3_q"))>>),
      JArr(<<Envelope(kindComment, PObj("t1_a")), Envelope(kindMore, PObj("more_1"))>>),
      JArr(<<Envelope(kindComment, NestedComment), Envelope(kindComment, PObj("t1_b")),
             Envelope(kindMore, PObj("more_1")), Envelope(kindMore, PObj("more_2"))>>),
      JArr(<<Envelope(kindMessage, PObj("t4_a")), Envelope(kindPost, JStr("oops"))>>)>>

\* Listing envelopes: children an array, null, of the wrong type or absent;
\* data absent, null or of the wrong type.
ListingDocs ==
    {ListingOf([children |-> c, after |-> JStr("t3_z"), before |-> JNull]) :
        c \in Range(ChildArrays)}
        \cup {ListingOf([children |-> c]) : c \in {JNull, JStr("oops")}}
        \cup {ListingOf([after |-> JStr("t3_z")]),
              ListingOf([children |-> JArr(<<>>), after |-> JArr(<<>>)]),
              JObj([kind |-> JStr(kindListing)]),
              JObj([kind |-> JStr(kindListing), data |-> JNull]),
              JObj([kind |-> JStr(kindListing), data |-> JStr("oops")])}

\* The listing envelopes the aggregate inputs are made of: with one post,
\* with two, with none, with comments and placeholders, with no data.
PairListings ==
    {ListingOf([children |-> ChildArrays[i]]) : i \in {1, 2, 3, 5}}
        \cup {JObj([kind |-> JStr(kindListing)]), JStr("oops")}

\* What a Top-Level Aggregate is decoded from: arrays of zero to three
\* elements (other values that are no array are among OtherDocs).
AggregateDocs == {JArr(a) : a \in SeqsUpTo(PairListings, 3)}

\* Values that are neither: strings, and arrays of things that are no object.
OtherDocs == {JStr(""), JStr("oops"), JArr(<<JStr("oops")>>), JArr(<<JNull>>)}

Docs == EnvelopeArrays \cup ListingDocs \cup AggregateDocs \cup OtherDocs

\* Reply containers to encode: zero to two comments, with or without a
\* placeholder, a comment with replies of its own among them.
LeafComment(n) == [FullID |-> n, ParentID |-> "t1_top", Replies |-> ZeroReplies]
InnerComment(n) ==
    [FullID |-> n, ParentID |-> "t1_top",
     Replies |-> [Comments |-> AppendSlice(MakeSlice, LeafComment("t1_leaf")),
                  More |-> NoMore]]
SomeMore == Ptr([FullID |-> "more_1", ParentID |-> "t1_top"])
Containers ==
    {[Comments |-> [nil |-> Len(cs) = 0, elems |-> cs], More |-> m] :
        cs \in SeqsUpTo({LeafComment("t1_a"), LeafComment("t1_b"), InnerComment("t1_c")}, 2),
        m \in {NoMore, SomeMore}}

\* ------------------------------------------------------------ the actions
\* A decoder may run on wire: nothing was decoded yet, and wire holds an
\* input (given, or just encoded).
Idle == (out.op = "none" /\ encoded.nil) \/ out.op = "encoded"

ThingsUnmarshalJSON ==
    /\ Idle
    /\ out' = [op |-> "things", res |-> thingsUnmarshalJSON(wire)]
    /\ UNCHANGED <<wire, encoded, treeVars, concVars>>

ListingUnmarshalJSON ==
    /\ Idle
    /\ out' = [op |-> "listing", res |-> listingUnmarshalJSON(wire)]
    /\ UNCHANGED <<wire, encoded, treeVars, concVars>>

RepliesUnmarshalJSON ==
    /\ Idle
    /\ out' = [op |-> "replies", res |-> repliesUnmarshalJSON(wire)]
    /\ UNCHANGED <<wire, encoded, treeVars, concVars>>

PostAndCommentsUnmarshalJSON ==
    /\ Idle
    /\ out' = [op |-> "aggregate", res |-> postAndCommentsUnmarshalJSON(wire)]
    /\ UNCHANGED <<wire, encoded, treeVars, concVars>>

RepliesMarshalJSON ==
    /\ out.op = "none"
    /\ ~encoded.nil
    /\ wire' = repliesMarshalJSON(encoded.v)
    /\ out' = [op |-> "encoded"]
    /\ UNCHANGED <<encoded, treeVars, concVars>>

\* No tree is assembled while the decoders are exercised.
TreeIdle ==
    /\ fullID = [c \in Comments |-> ""]
    /\ parentID = [c \in Comments |-> ""]
    /\ moreParentID = [m \in Mores |-> ""]
    /\ rootKind = "pc"
    /\ replies = EmptyHeap.replies
    /\ repliesMore = EmptyHeap.more
    /\ pcComments = <<>>
    /\ pcMore = Nil
    /\ status = "ok"
    /\ fed = <<>>
    /\ pre = EmptyHeap

InitDecode ==
    /\ TreeIdle
    /\ ConcIdle
    /\ \/ wire \in Docs /\ encoded = NoMore
       \/ wire = JNull /\ encoded \in {Ptr(r) : r \in Containers}
    /\ out = [op |-> "none"]

NextDecode ==
    \/ ThingsUnmarshalJSON
    \/ ListingUnmarshalJSON
    \/ RepliesUnmarshalJSON
    \/ PostAndCommentsUnmarshalJSON
    \/ RepliesMarshalJSON

SpecDecode == InitDecode /\ [][NextDecode]_vars

\* ======================================================= concurrent attach
\* Two goroutines call pc.addCommentToTree on one aggregate with no lock,
\* goroutine 1 with c1 and goroutine 2 with c2. A step is one evaluation of
\* the method body: the comparison, the read of the slice that append
\* extends, the assignment of the extended slice, one turn of the range loop.
Goroutines == {1, 2}
argOf(g) == IF g = 1 THEN "c1" ELSE "c2"

nodeFullID(node) == IF node = "pc" THEN PostFullID ELSE fullID[node]
nodeChildren(node) == IF node = "pc" THEN pcComments ELSE replies[node]

\* The frame on top of goroutine g's call stack.
Top(g) == stack[g][Len(stack[g])]

SetTop(g, fr) == [stack EXCEPT ![g] = [@ EXCEPT ![Len(@)] = fr]]

\* go pc.addCommentToTree(comment)
Call(g) ==
    /\ gpc[g] = "idle"
    /\ gpc' = [gpc EXCEPT ![g] = "cmp"]
    /\ stack' = [stack EXCEPT ![g] = <<[node |-> "pc", rs |-> <<>>, i |-> 1]>>]
    /\ overlapped' = (overlapped \/ \E o \in Goroutines \ {g} : gpc[o] \notin {"idle", "done"})
    /\ UNCHANGED <<loaded, treeVars, decodeVars>>

\* if pc.Post.FullID == comment.ParentID / if c.FullID == comment.ParentID;
\* on a mismatch the range expression is evaluated, once.
Cmp(g) ==
    /\ gpc[g] = "cmp"
    /\ IF nodeFullID(Top(g).node) = parentID[argOf(g)]
       THEN /\ gpc' = [gpc EXCEPT ![g] = "load"]
            /\ UNCHANGED stack
       ELSE /\ gpc' = [gpc EXCEPT ![g] = "range"]
            /\ stack' = SetTop(g, [Top(g) EXCEPT !.rs = nodeChildren(Top(g).node)])
    /\ UNCHANGED <<loaded, overlapped, treeVars, decodeVars>>

\* The read of pc.Comments / c.Replies.Comments in the call of append.
Load(g) ==
    /\ gpc[g] = "load"
    /\ loaded' = [loaded EXCEPT ![g] = nodeChildren(Top(g).node)]
    /\ gpc' = [gpc EXCEPT ![g] = "store"]
    /\ UNCHANGED <<stack, overlapped, treeVars, decodeVars>>

\* The frame returns: to the caller's loop, or out of the call.
Return(g) ==
    /\ stack' = [stack EXCEPT ![g] = SubSeq(@, 1, Len(@) - 1)]
    /\ gpc' = [gpc EXCEPT ![g] = IF Len(stack[g]) = 1 THEN "done" ELSE "range"]

\* The assignment of append's result, and the return that follows it.
Store(g) ==
    /\ gpc[g] = "store"
    /\ IF Top(g).node = "pc"
       THEN /\ pcComments' = appendComment(loaded[g], argOf(g))
            /\ UNCHANGED replies
       ELSE /\ replies' = [replies EXCEPT ![Top(g).node] = appendComment(loaded[g], argOf(g))]
            /\ UNCHANGED pcComments
    /\ Return(g)
    /\ UNCHANGED <<loaded, overlapped, fullID, parentID, moreParentID, rootKind,
                   repliesMore, pcMore, status, fed, pre, decodeVars>>

\* One turn of for _, reply := range ...: the call on the next reply, or the
\* end of the loop and the return.
RangeStep(g) ==
    /\ gpc[g] = "range"
    /\ IF Top(g).i > Len(Top(g).rs)
       THEN Return(g)
       ELSE /\ stack' = [stack EXCEPT ![g] =
                            Append([@ EXCEPT ![Len(@)].i = @ + 1],
                                   [node |-> Top(g).rs[Top(g).i], rs |-> <<>>, i |-> 1])]
            /\ gpc' = [gpc EXCEPT ![g] = "cmp"]
    /\ UNCHANGED <<loaded, overlapped, treeVars, decodeVars>>

\* The aggregate as decoded: no top-level comment, or the comment c0.
InitConc ==
    /\ DecodeIdle
    /\ fullID \in {f \in [Comments -> IDs \cup {"C"}] :
                      /\ f["c0"] \in {"A", "C"}
                      /\ f["c1"] = "A"
                      /\ f["c2"] \in {"A", "B"}}
    /\ parentID \in [Comments -> IDs]
    /\ moreParentID = [m \in Mores |-> "R"]
    /\ rootKind = "pc"
    /\ replies = EmptyHeap.replies
    /\ repliesMore = EmptyHeap.more
    /\ pcComments \in {<<>>, <<"c0">>}
    /\ pcMore = Nil
    /\ status = "ok"
    /\ fed = <<>>
    /\ pre = EmptyHeap
    /\ gpc = [g \in Goroutines |-> "idle"]
    /\ stack = [g \in Goroutines |-> <<>>]
    /\ loaded = [g \in Goroutines |-> <<>>]
    /\ overlapped = FALSE

NextConc ==
    \E g \in Goroutines :
        \/ Call(g)
        \/ Cmp(g)
        \/ Load(g)
        \/ Store(g)
        \/ RangeStep(g)

SpecConc == InitConc /\ [][NextConc]_vars

\* ------------------------------------------------- reading the object graph
RootFullID == IF rootKind = "pc" THEN PostFullID ELSE fullID[RootComment]

RootChildren(h) == IF rootKind = "pc" THEN h.pcComments ELSE h.replies[RootComment]

RootMore(h) == IF rootKind = "pc" THEN h.pcMore ELSE h.more[RootComment]

\* The comment objects a walk starts at: the aggregate's top-level comments,
\* or the root comment itself.
RootSet(h) == IF rootKind = "pc" THEN Range(h.pcComments) ELSE {RootComment}

\* The comments reached from S along child sequences, never going below a
\* comment whose fullID is in stop.
RECURSIVE Descend(_, _, _)
Descend(h, S, stop) ==
    LET T == S \cup UNION {Range(h.replies[c]) : c \in {d \in S : fullID[d] \notin stop}}
    IN  IF T = S THEN S ELSE Descend(h, T, stop)

TreeComments(h) == Descend(h, RootSet(h), {})

\* The fullIDs of the nodes of the tree, the post included.
TreeIDs(h) ==
    {fullID[c] : c \in TreeComments(h)}
        \cup (IF rootKind = "pc" THEN {PostFullID} ELSE {})

\* No comment of the tree is its own descendant.
Acyclic(h) == \A c \in TreeComments(h) : c \notin Descend(h, Range(h.replies[c]), {})

\* The comments with fullID p that have no ancestor comment with fullID p.
FirstMatches(h, p) == {c \in Descend(h, RootSet(h), {p}) : fullID[c] = p}

SameHeap(h, g) ==
    /\ h.replies = g.replies
    /\ h.more = g.more
    /\ h.pcComments = g.pcComments
    /\ h.pcMore = g.pcMore

LastCall == fed[Len(fed)]

\* The comments passed to the attach-comment calls so far, in call order.
CommentArgs ==
    LET calls == SelectSeq(fed, LAMBDA call : call.op = "comment")
    IN  [i \in 1..Len(calls) |-> calls[i].arg]

\* fullIDs pairwise distinct and distinct from the root's; every parent is
\* the root or an earlier comment of the sequence.
InOrder(args) ==
    /\ \A i, j \in 1..Len(args) : i < j => fullID[args[i]] /= fullID[args[j]]
    /\ \A i \in 1..Len(args) :
          /\ fullID[args[i]] /= RootFullID
          /\ \/ parentID[args[i]] = RootFullID
             \/ \E j \in 1..(i - 1) : fullID[args[j]] = parentID[args[i]]

\* The comments of args whose parentID is id, in the order of args.
ChildrenOf(args, id) == SelectSeq(args, LAMBDA x : parentID[x] = id)

\* --------------------------------------------------------------------- C1
\* C1: comments with pairwise distinct fullIDs, fed parents first, end up
\* each exactly once as a child of the node named by its parentID, every
\* child sequence in input order, and every call returns.
C1_InOrderAttachBuildsTree ==
    InOrder(CommentArgs) =>
        /\ status = "ok"
        /\ RootChildren(Heap) = ChildrenOf(CommentArgs, RootFullID)
        /\ \A c \in Comments :
              (rootKind = "c0" => c /= RootComment) =>
                  replies[c] = IF c \in Range(CommentArgs)
                               THEN ChildrenOf(CommentArgs, fullID[c])
                               ELSE <<>>

\* Three comments fed in order: two siblings under the root and one nested
\* under the second sibling.
C1_Witness ==
    /\ InOrder(CommentArgs)
    /\ Len(CommentArgs) = 3
    /\ parentID[CommentArgs[1]] = RootFullID
    /\ parentID[CommentArgs[2]] = RootFullID
    /\ parentID[CommentArgs[3]] = fullID[CommentArgs[2]]

\* --------------------------------------------------------------------- C2
\* C2: on a tree, attaching a comment whose parentID is the fullID of no
\* node returns and changes no child sequence and no placeholder slot; fed
\* [child, parent] in that order, the tree ends as root.children = [parent],
\* parent.children = [] and the child is nowhere in it.
C2_UnmatchedAttachDropsComment ==
    /\ (/\ fed /= <<>>
        /\ LastCall.op = "comment"
        /\ Acyclic(pre)
        /\ parentID[LastCall.arg] \notin TreeIDs(pre))
          => (status = "ok" /\ SameHeap(Heap, pre))
    /\ \A child, parent \in Comments :
          (/\ fed = <<[op |-> "comment", arg |-> child],
                      [op |-> "comment", arg |-> parent]>>
           /\ child /= parent
           /\ rootKind = "c0" => RootComment \notin {child, parent}
           /\ parentID[child] = fullID[parent]
           /\ fullID[parent] /= RootFullID
           /\ parentID[parent] = RootFullID)
             => /\ status = "ok"
                /\ RootChildren(Heap) = <<parent>>
                /\ replies[parent] = <<>>
                /\ child \notin TreeComments(Heap) \ RootSet(Heap)
                /\ child \notin Range(RootChildren(Heap))

\* The out-of-order feed has happened: the child first, then its parent.
C2_Witness ==
    \E child, parent \in Comments :
        /\ fed = <<[op |-> "comment", arg |-> child],
                   [op |-> "comment", arg |-> parent]>>
        /\ child /= parent
        /\ rootKind = "c0" => RootComment \notin {child, parent}
        /\ parentID[child] = fullID[parent]
        /\ fullID[parent] /= RootFullID
        /\ parentID[parent] = RootFullID
        /\ RootChildren(Heap) = <<parent>>

\* --------------------------------------------------------------------- C3
\* C3: after an attach-placeholder call that returned, the root (when its
\* fullID is the placeholder's parentID) or else every first comment with
\* that fullID on a search path holds the placeholder just attached,
\* whatever its slot held before.
C3_LastPlaceholderWins ==
    (fed /= <<>> /\ LastCall.op = "more" /\ status = "ok") =>
        LET m == LastCall.arg
            p == moreParentID[m]
        IN  IF RootFullID = p
            THEN RootMore(Heap) = m
            ELSE \A c \in FirstMatches(pre, p) : repliesMore[c] = m

\* Two different placeholders with one parentID attached one after the
\* other: the node held the first and now holds the second.
C3_Witness ==
    /\ Len(fed) >= 2
    /\ status = "ok"
    /\ LastCall.op = "more"
    /\ fed[Len(fed) - 1].op = "more"
    /\ LastCall.arg /= fed[Len(fed) - 1].arg
    /\ moreParentID[LastCall.arg] = moreParentID[fed[Len(fed) - 1].arg]
    /\ moreParentID[LastCall.arg] /= RootFullID
    /\ \E c \in FirstMatches(pre, moreParentID[LastCall.arg]) :
          /\ pre.more[c] = fed[Len(fed) - 1].arg
          /\ repliesMore[c] = LastCall.arg

\* --------------------------------------------------------------------- C4
\* An element of the input that is a Listing envelope: a JSON object the
\* listing decoder accepts.
IsListingEnvelope(e) == e.j = "object" /\ ~listingUnmarshalJSON(e).err

\* C4: the aggregate decoder returns a decode error, and no aggregate, when
\* the input is not an array of exactly two Listing envelopes or the first
\* one holds no submission; when it succeeds the post is the first
\* submission of element 0, the comments are those of element 1 and the
\* placeholder is the first placeholder of element 1, if any.
C4_AggregateDecodeFailsOnBadShape ==
    out.op = "aggregate" =>
        LET twoListings ==
                /\ wire.j = "array"
                /\ Len(wire.a) = 2
                /\ \A i \in 1..2 : IsListingEnvelope(wire.a[i])
            posts == IF twoListings
                     THEN listingUnmarshalJSON(wire.a[1]).v.things.Posts.elems
                     ELSE <<>>
            second == listingUnmarshalJSON(wire.a[2]).v.things
        IN  /\ (~twoListings \/ Len(posts) = 0) =>
                  (out.res.outcome = "error" /\ out.res.v = NoAggregate)
            /\ out.res.outcome = "ok" =>
                  /\ Len(posts) >= 1
                  /\ out.res.v.Post = Ptr(posts[1])
                  /\ out.res.v.Comments = second.Comments
                  /\ out.res.v.More = IF Len(second.Mores.elems) > 0
                                      THEN Ptr(second.Mores.elems[1])
                                      ELSE NoMore

\* --------------------------------------------------------------------- C5
\* A sequence of Tagged Envelopes: an array of objects with a string kind.
IsEnvelopeSeq(w) ==
    /\ w.j = "array"
    /\ \A i \in 1..Len(w.a) :
          /\ w.a[i].j = "object"
          /\ "kind" \in DOMAIN w.a[i].f
          /\ w.a[i].f.kind.j = "string"

\* The payload of envelope e decoded as kind k's record.
DecodedAs(k, e) ==
    IF k = kindComment
    THEN unmarshalComment(Field(e, "data"))
    ELSE unmarshalRecord(Field(e, "data"))

\* The records of the envelopes of w that carry kind k and decode, in order.
ExpectedBucket(w, k) ==
    LET sel == SelectSeq(w.a, LAMBDA e : e.f.kind.s = k /\ ~DecodedAs(k, e).err)
    IN  [i \in 1..Len(sel) |-> DecodedAs(k, sel[i]).v]

\* The bucket of kind k.
Bucket(t, k) ==
    CASE k = kindComment -> t.Comments
      [] k = kindMore -> t.Mores
      [] k = kindAccount -> t.Users
      [] k = kindPost -> t.Posts
      [] k = kindSubreddit -> t.Subreddits
      [] k = kindModAction -> t.ModActions

\* C5: on a sequence of Tagged Envelopes the classifier succeeds and each
\* bucket is exactly the records of the envelopes of its kind whose payload
\* decodes, in input order; nothing else is in any bucket.
C5_ClassifierBuckets ==
    (out.op = "things" /\ IsEnvelopeSeq(wire)) =>
        /\ ~out.res.err
        /\ \A k \in SupportedKinds :
              Bucket(out.res.v, k).elems = ExpectedBucket(wire, k)

\* Two envelopes were classified: one dropped (unsupported kind or payload
\* that does not decode), one kept in its bucket.
C5_Witness ==
    /\ out.op = "things"
    /\ IsEnvelopeSeq(wire)
    /\ Len(wire.a) = 2
    /\ \/ wire.a[1].f.kind.s \in UnsupportedKinds
       \/ DecodedAs(wire.a[1].f.kind.s, wire.a[1]).err
    /\ wire.a[2].f.kind.s \in SupportedKinds
    /\ DecodedAs(wire.a[2].f.kind.s, wire.a[2]).v.FullID /= ""
    /\ Bucket(out.res.v, wire.a[2].f.kind.s).elems
          = <<DecodedAs(wire.a[2].f.kind.s, wire.a[2]).v>>

\* --------------------------------------------------------------------- C6
\* C6: a container with N > 0 comments, encoded and decoded again as the
\* children of a Listing, comes back with the same N comments in the same
\* order and with no placeholder.
C6_RepliesRoundTrip ==
    (out.op = "encoded" /\ Len(encoded.v.Comments.elems) > 0) =>
        LET back == repliesUnmarshalJSON(ListingOf([children |-> wire]))
        IN  /\ ~back.err
            /\ back.v.Comments.elems = encoded.v.Comments.elems
            /\ back.v.More.nil

\* --------------------------------------------------------------------- C7
\* C7: after a successful Listing decode none of the six classified
\* sequences is null.
C7_ListingSequencesNonNull ==
    (out.op = "listing" /\ ~out.res.err) =>
        \A k \in SupportedKinds : ~Bucket(out.res.v.things, k).nil

\* --------------------------------------------------------------------- C9
\* The node both comments name as their parent is in the tree the two calls
\* run against: the post, or the top-level comment c0.
SharedParentInTree ==
    /\ parentID["c1"] = parentID["c2"]
    /\ \/ parentID["c1"] = PostFullID
       \/ "c0" \in Range(pcComments) /\ fullID["c0"] = parentID["c1"]

\* The children of that node.
SharedParentChildren ==
    IF parentID["c1"] = PostFullID THEN pcComments ELSE replies["c0"]

BothCallsDone == \A g \in Goroutines : gpc[g] = "done"

\* C9: when the two calls ran one after the other, in either order, both
\* comments are among the parent's children, once each.
C9_SerializedAttachKeepsBoth ==
    (BothCallsDone /\ ~overlapped /\ SharedParentInTree) =>
        \A c \in {"c1", "c2"} :
            Cardinality({i \in 1..Len(SharedParentChildren) :
                            SharedParentChildren[i] = c}) = 1

\* The two calls interleaved and one comment is missing from the parent's
\* children.
C9_LostUpdate ==
    /\ BothCallsDone
    /\ overlapped
    /\ SharedParentInTree
    /\ \E c \in {"c1", "c2"} : c \notin Range(SharedParentChildren)

\* --------------------------------------------------------------------- C8
\* C8: every attach call returns, whatever calls came before it.
C8_EveryAttachReturns == status = "ok"

\* -------------------------------------------------------------------- C10
\* C10: an attach-placeholder call that returned changes no child sequence;
\* when the root's fullID is the placeholder's parentID it sets the root's
\* slot and no other; otherwise it sets exactly the slots of the first
\* comments with that fullID on each search path.
C10_PlaceholderStopsAtFirstMatch ==
    (fed /= <<>> /\ LastCall.op = "more" /\ status = "ok") =>
        LET m == LastCall.arg
            p == moreParentID[m]
        IN  /\ replies = pre.replies
            /\ pcComments = pre.pcComments
            /\ IF rootKind = "pc" /\ PostFullID = p
               THEN pcMore = m /\ repliesMore = pre.more
               ELSE /\ pcMore = pre.pcMore
                    /\ \A c \in Comments :
                          repliesMore[c] = IF c \in FirstMatches(pre, p)
                                           THEN m
                                           ELSE pre.more[c]

====
